---- MODULE Spec2Model ----
(***************************************************************************)
(* A model of the binary encoder of src/src/ser.rs: the Serializer that    *)
(* implements serde::Serializer over a byte buffer, its two variable       *)
(* length integer codecs, and the entry point to_bytes.                    *)
(*                                                                         *)
(* Representation of machine integers.  TLC's integers are 32 bits wide,   *)
(* so a 64-bit word (u64, usize, and the bit pattern of an i64) is a       *)
(* sequence of ten base-128 digits, least significant first; the tenth     *)
(* digit holds bit 63 alone and is 0 or 1.  A 32-bit word (u32) is five    *)
(* such digits, the fifth below 16.  The code's `& 0x7F`, `>> 7`, `as u8`, *)
(* negation and widening are operators on these digit sequences.  The      *)
(* narrow types i8, i16, i32, u8, u16 are TLC integers of their range.     *)
(***************************************************************************)
EXTENDS Integers, Sequences, FiniteSets, TLC

VARIABLES
    buffer,           \* Serializer::buffer, the Vec<u8> the encoder appends to
    pc,               \* "start": fresh serializer; "open": a compound serializer
                      \* was handed out; "done": the offered value is finished
    open,             \* the kind of compound serializer handed out, its declared
                      \* length and the number of element calls made on it
    result,           \* the Result of the last call: "Ok", "LengthRequired",
                      \* "Panic" (the call did not return), "None" before any call
    last,             \* the last call: its name, its argument, the buffer before it
    ret,              \* what to_bytes returned: Result<Vec<u8>>
    overflow_checks   \* the build: are arithmetic overflow checks compiled in
                      \* (debug profile) or not (release profile)

vars == <<buffer, pc, open, result, last, ret, overflow_checks>>

----------------------------------------------------------------------------
(* Bounds of the model.                                                    *)

\* every integer of magnitude up to SmallMax is an input, besides the
\* boundary values of every bit width
SmallMax == 300
\* the number of element / field / key / value calls made on one compound
MaxElems == 2
\* the largest length a sequence or a mapping is declared with
MaxDeclared == 2
\* length of the longest generated byte blob, besides the fixed long ones
MaxBlob == 2

\* usize is 64 bits wide: the tests of serialize_u64 (a seven-byte vector
\* for 90_000_000_000_000) pass on no narrower target
UsizeBits == 64

----------------------------------------------------------------------------
(* 64-bit words as ten base-128 digits.                                    *)

Digits == 1..10

ZeroWord == [i \in Digits |-> 0]

\* the word of a natural number below 2^31
ToWord(n) ==
    [i \in Digits |-> IF i <= 4 THEN (n \div (128 ^ (i - 1))) % 128
                      ELSE IF i = 5 THEN n \div (128 ^ 4)
                      ELSE 0]

\* 2^k as a word, k in 0..63
Pow2Word(k) == [i \in Digits |-> IF i = (k \div 7) + 1 THEN 2 ^ (k % 7) ELSE 0]

\* 2^k - 1 as a word, k in 0..64
OnesWord(k) ==
    [i \in Digits |-> IF 7 * i <= k THEN 127
                      ELSE IF 7 * (i - 1) >= k THEN 0
                      ELSE 2 ^ (k - 7 * (i - 1)) - 1]

IsZero(w) == \A i \in Digits : w[i] = 0

\* v & 0x7F
And7F(w) == w[1]

\* v & !0x7F != 0
AboveLow7(w) == \E i \in 2..10 : w[i] # 0

\* abs & !0x3F != 0
AboveLow6(w) == w[1] >= 64 \/ \E i \in 2..10 : w[i] # 0

\* v >> 7 on 64 bits
Shr7(w) == [i \in Digits |-> IF i < 10 THEN w[i + 1] ELSE 0]

\* v as u8: the low eight bits
AsU8(w) == w[1] + 128 * (w[2] % 2)

\* bit k of a word, k in 0..63
WordBit(w, k) == (w[(k \div 7) + 1] \div (2 ^ (k % 7))) % 2

\* the low `bits` bits of a word: what `as` keeps when it narrows
Truncate(w, bits) ==
    [i \in Digits |-> IF 7 * i <= bits THEN w[i]
                      ELSE IF 7 * (i - 1) >= bits THEN 0
                      ELSE w[i] % (2 ^ (bits - 7 * (i - 1)))]

\* !v on 64 bits
NotWord(w) == [i \in Digits |-> IF i = 10 THEN 1 - w[i] ELSE 127 - w[i]]

\* v + 1 on 64 bits, wrapping
RECURSIVE IncFrom(_, _)
IncFrom(w, i) ==
    IF i > 10 THEN w
    ELSE LET top == IF i = 10 THEN 1 ELSE 127
         IN  IF w[i] < top THEN [w EXCEPT ![i] = w[i] + 1]
             ELSE IncFrom([w EXCEPT ![i] = 0], i + 1)

IncWord(w) == IncFrom(w, 1)

\* two's complement negation on 64 bits, wrapping
WrappingNeg(w) == IncWord(NotWord(w))

\* the bit pattern of i64::MIN
I64Min == Pow2Word(63)

\* v >= 0 for the i64 with bit pattern w
NonNegative(w) == w[10] = 0

----------------------------------------------------------------------------
(* Bytes.                                                                  *)

ByteBit(b, k) == (b \div (2 ^ k)) % 2

RECURSIVE OrFrom(_, _, _)
OrFrom(a, b, k) ==
    IF k > 7 THEN 0
    ELSE (IF ByteBit(a, k) = 1 \/ ByteBit(b, k) = 1 THEN 2 ^ k ELSE 0)
         + OrFrom(a, b, k + 1)

\* a | b on u8
BitOr(a, b) == OrFrom(a, b, 0)

----------------------------------------------------------------------------
(* Widening and narrowing conversions.                                     *)

\* u64::from(v) for a u16
U64FromU16(v) == ToWord(v)

\* u64::from(v) for a u32: zero extension
U64FromU32(v) == [i \in Digits |-> IF i <= 5 THEN v[i] ELSE 0]

\* i64::from(v) for an i16 or an i32: sign extension to the 64-bit
\* two's complement pattern
I64From(v) == IF v >= 0 THEN ToWord(v) ELSE NotWord(ToWord(-(v + 1)))

\* v as usize for a u64
AsUsize(v) == Truncate(v, UsizeBits)

\* variant_index as usize
UsizeFromU32(v) == Truncate(U64FromU32(v), UsizeBits)

\* the usize that len() returns for a collection of n bytes or elements
UsizeOfLen(n) == ToWord(n)

\* v as u8 for an i8
I8AsU8(v) == v % 256

----------------------------------------------------------------------------
(* Results of the Serializer's methods: the buffer as the call leaves it   *)
(* and the call's Result.  "Panic" stands for a call that unwinds instead  *)
(* of returning.                                                           *)

Ok(buf) == [buffer |-> buf, result |-> "Ok"]

Err(buf, e) == [buffer |-> buf, result |-> e]

----------------------------------------------------------------------------
(* The unsigned codec, Serializer::serialize_usize.                        *)

\* a first loop that goes on until nothing at all remains of the value
RECURSIVE usize_push_to_zero(_, _)
usize_push_to_zero(v, stack) ==
    IF ~IsZero(v)
    THEN LET stack2 == Append(stack, And7F(v))
             v2 == Shr7(v)
         IN  IF IsZero(v2) THEN <<v2, stack2>>
             ELSE usize_push_to_zero(v2, stack2)
    ELSE <<v, stack>>

\* the first loop: push the low seven bits while bits above them remain;
\* yields the remaining value and the stack
RECURSIVE usize_push(_, _)
usize_push(v, stack) ==
    IF AboveLow7(v)
    THEN LET stack2 == Append(stack, And7F(v))
             v2 == Shr7(v)
         IN  IF IsZero(v2) THEN <<v2, stack2>> ELSE usize_push(v2, stack2)
    ELSE <<v, stack>>

\* the second loop: pop the stack into the buffer, the continuation bit set
\* on every byte but the one popped last
\* a faulty second loop: the continuation bit set on the last byte too
RECURSIVE usize_drain_all_continued(_, _)
usize_drain_all_continued(buf, stack) ==
    IF stack = <<>> THEN buf
    ELSE usize_drain_all_continued(
             Append(buf, BitOr(stack[Len(stack)], 128)),
             SubSeq(stack, 1, Len(stack) - 1))

RECURSIVE usize_drain(_, _)
usize_drain(buf, stack) ==
    IF stack = <<>> THEN buf
    ELSE LET popped == stack[Len(stack)]
             rest == SubSeq(stack, 1, Len(stack) - 1)
             next == IF rest # <<>> THEN BitOr(popped, 128) ELSE popped
         IN  usize_drain(Append(buf, next), rest)

serialize_usize(buf, v0) ==
    LET split == usize_push(v0, <<>>)
        v == split[1]
        stack == split[2]
        more == IF stack = <<>> THEN 0 ELSE 128
    IN  usize_drain(Append(buf, BitOr(AsU8(v), more)), stack)

----------------------------------------------------------------------------
(* The signed codec, serialize_i64.                                        *)

RECURSIVE i64_push(_, _)
i64_push(abs, stack) ==
    IF AboveLow6(abs)
    THEN LET stack2 == Append(stack, And7F(abs))
             abs2 == Shr7(abs)
         IN  IF IsZero(abs2) THEN <<abs2, stack2>> ELSE i64_push(abs2, stack2)
    ELSE <<abs, stack>>

RECURSIVE i64_drain(_, _)
i64_drain(buf, stack) ==
    IF stack = <<>> THEN buf
    ELSE LET popped == stack[Len(stack)]
             rest == SubSeq(stack, 1, Len(stack) - 1)
             next == IF rest # <<>> THEN BitOr(popped, 128) ELSE popped
         IN  i64_drain(Append(buf, next), rest)

\* -v overflows for i64::MIN alone: with overflow checks compiled in the
\* negation panics, without them it wraps to i64::MIN
NegOverflows(v) == v = I64Min

\* the sign bit and the magnitude: (0x00, v as u64) or (0x40, (-v) as u64)
i64_sign_abs(v) ==
    IF NonNegative(v) THEN <<0, v>> ELSE <<64, WrappingNeg(v)>>

serialize_i64(buf, v) ==
    IF ~NonNegative(v) /\ NegOverflows(v) /\ overflow_checks
    THEN Err(buf, "Panic")
    ELSE LET sa == i64_sign_abs(v)
             sign == sa[1]
             split == i64_push(sa[2], <<>>)
             abs == split[1]
             stack == split[2]
             more == IF stack = <<>> THEN 0 ELSE 128
         IN  Ok(i64_drain(
                 Append(buf, BitOr(BitOr(AsU8(abs), sign), more)), stack))

----------------------------------------------------------------------------
(* The scalar methods of impl serde::Serializer for &mut Serializer.       *)

serialize_bool(buf, v) == Ok(Append(buf, IF v THEN 1 ELSE 0))

serialize_i8(buf, v) == Ok(Append(buf, I8AsU8(v)))

\* a faulty serialize_i16: the low byte pushed as serialize_i8 does
serialize_i16_as_byte(buf, v) == Ok(Append(buf, v % 256))

serialize_i16(buf, v) == serialize_i64(buf, I64From(v))

serialize_i32(buf, v) == serialize_i64(buf, I64From(v))

serialize_u8(buf, v) == Ok(Append(buf, v))

serialize_u64(buf, v) == Ok(serialize_usize(buf, AsUsize(v)))

serialize_u16(buf, v) == serialize_u64(buf, U64FromU16(v))

serialize_u32(buf, v) == serialize_u64(buf, U64FromU32(v))

\* (v >> (i * 8)) & 0xFF
WordByte(w, i) ==
    WordBit(w, 8 * i) + 2 * WordBit(w, 8 * i + 1) + 4 * WordBit(w, 8 * i + 2)
    + 8 * WordBit(w, 8 * i + 3) + 16 * WordBit(w, 8 * i + 4)
    + 32 * WordBit(w, 8 * i + 5) + 64 * WordBit(w, 8 * i + 6)
    + 128 * WordBit(w, 8 * i + 7)

\* an f32 is its bit pattern, a 32-bit word; the bytes go out most
\* significant first
serialize_f32(buf, v) ==
    LET w == U64FromU32(v)
    IN  Ok(buf \o <<WordByte(w, 3), WordByte(w, 2), WordByte(w, 1), WordByte(w, 0)>>)

\* an f64 is its bit pattern, a 64-bit word
serialize_f64(buf, v) ==
    Ok(buf \o <<WordByte(v, 7), WordByte(v, 6), WordByte(v, 5), WordByte(v, 4),
                WordByte(v, 3), WordByte(v, 2), WordByte(v, 1), WordByte(v, 0)>>)

\* char::encode_utf8 of the code point c
encode_utf8(c) ==
    IF c < 128 THEN <<c>>
    ELSE IF c < 2048 THEN <<192 + (c \div 64), 128 + (c % 64)>>
    ELSE IF c < 65536
         THEN <<224 + (c \div 4096), 128 + ((c \div 64) % 64), 128 + (c % 64)>>
    ELSE <<240 + (c \div 262144), 128 + ((c \div 4096) % 64),
           128 + ((c \div 64) % 64), 128 + (c % 64)>>

serialize_char(buf, v) == Ok(buf \o encode_utf8(v))

\* v.as_bytes() of a str given as its sequence of characters: the UTF-8
\* forms of the characters in order (halving keeps the evaluation shallow)
RECURSIVE as_bytes(_)
as_bytes(s) ==
    IF s = <<>> THEN <<>>
    ELSE IF Len(s) = 1 THEN encode_utf8(s[1])
    ELSE LET half == Len(s) \div 2
         IN  as_bytes(SubSeq(s, 1, half)) \o as_bytes(SubSeq(s, half + 1, Len(s)))

\* a faulty v.len(): the number of characters
str_len_chars(s) == Len(s)

\* v.len() of a str: the length of its UTF-8 form in bytes
str_len(s) == Len(as_bytes(s))

serialize_str(buf, v) ==
    LET bytes == as_bytes(v)
    IN  Ok(serialize_usize(buf, UsizeOfLen(str_len(v))) \o bytes)

serialize_bytes(buf, v) ==
    Ok(serialize_usize(buf, UsizeOfLen(Len(v))) \o v)

serialize_none(buf) == Ok(Append(buf, 0))

serialize_unit(buf) == Ok(buf)

serialize_unit_struct(buf) == Ok(buf)

serialize_unit_variant(buf, variant_index) == serialize_u32(buf, variant_index)

----------------------------------------------------------------------------
(* Values and their traversal.  A value is a tuple whose first component   *)
(* names its shape:                                                        *)
(*   <<"bool", b>>  <<"i8", n>> <<"i16", n>> <<"i32", n>> <<"i64", word>>  *)
(*   <<"u8", n>> <<"u16", n>> <<"u32", word32>> <<"u64", word>>            *)
(*   <<"f32", word32>> <<"f64", word>> <<"char", c>> <<"str", chars>>      *)
(*   <<"bytes", bytes>> <<"none">> <<"some", x>> <<"unit">>                *)
(*   <<"unit_struct">> <<"unit_variant", idx>> <<"newtype_struct", x>>     *)
(*   <<"newtype_variant", idx, x>> <<"seq", len, items>>                   *)
(*   <<"tuple", items>> <<"tuple_struct", items>>                          *)
(*   <<"tuple_variant", idx, items>> <<"map", len, entries>>               *)
(*   <<"struct", items>> <<"struct_variant", idx, items>>                  *)
(* where len is an Option<usize>, <<"None">> or <<"Some", n>>, and entries *)
(* is a sequence of <<key, value>> pairs.  Serialize(value, buf) is        *)
(* value.serialize(serializer): the one Serializer method serde calls for  *)
(* a value of that shape, with the element calls it makes on the compound  *)
(* serializer it gets back.                                                *)

RECURSIVE Serialize(_, _)

\* a faulty serialize_some: the tag byte left out
serialize_some_untagged(buf, value) == Serialize(value, buf)

serialize_some(buf, value) == Serialize(value, Append(buf, 1))

serialize_newtype_struct(buf, value) == Serialize(value, buf)

\* a faulty serialize_newtype_variant: the index through the signed codec
serialize_newtype_variant_signed(buf, variant_index, value) ==
    Serialize(value, serialize_i64(buf, U64FromU32(variant_index)).buffer)

serialize_newtype_variant(buf, variant_index, value) ==
    Serialize(value, serialize_usize(buf, UsizeFromU32(variant_index)))

serialize_seq(buf, len) ==
    IF len[1] = "None" THEN Err(buf, "LengthRequired")
    ELSE Ok(serialize_usize(buf, UsizeOfLen(len[2])))

\* a faulty serialize_tuple: the arity written as serialize_seq writes it
serialize_tuple_counted(buf, len) == Ok(serialize_usize(buf, UsizeOfLen(len)))

serialize_tuple(buf, len) == Ok(buf)

serialize_tuple_struct(buf, len) == Ok(buf)

serialize_tuple_variant(buf, variant_index, len) ==
    LET r == serialize_u32(buf, variant_index)
    IN  IF r.result # "Ok" THEN r ELSE Ok(r.buffer)

\* a faulty serialize_map: a zero count written before the error
serialize_map_zero_count(buf, len) ==
    IF len[1] = "None" THEN Err(serialize_usize(buf, ZeroWord), "LengthRequired")
    ELSE Ok(serialize_usize(buf, UsizeOfLen(len[2])))

serialize_map(buf, len) ==
    IF len[1] = "None" THEN Err(buf, "LengthRequired")
    ELSE Ok(serialize_usize(buf, UsizeOfLen(len[2])))

serialize_struct(buf, len) == Ok(buf)

serialize_struct_variant(buf, variant_index, len) ==
    LET r == serialize_u32(buf, variant_index)
    IN  IF r.result # "Ok" THEN r ELSE Ok(r.buffer)

\* impl SerializeMap
SerializeMap_serialize_key(buf, key) == Serialize(key, buf)

SerializeMap_serialize_value(buf, value) == Serialize(value, buf)

SerializeMap_end(buf) == Ok(buf)

\* impl SerializeSeq
SerializeSeq_serialize_element(buf, value) == Serialize(value, buf)

\* an end that compares the elements written with the count declared
SerializeSeq_end_counted(buf) ==
    IF /\ open.kind = "seq"
       /\ open.header[2][1] = "Some"
       /\ Len(open.items) # open.header[2][2]
    THEN Err(buf, "LengthMismatch")
    ELSE Ok(buf)

SerializeSeq_end(buf) == Ok(buf)

\* impl SerializeStruct
SerializeStruct_serialize_field(buf, key, value) == Serialize(value, buf)

SerializeStruct_end(buf) == Ok(buf)

\* impl SerializeStructVariant
SerializeStructVariant_serialize_field(buf, key, value) ==
    Serialize(value, buf)

SerializeStructVariant_end(buf) == Ok(buf)

\* an element written into a fresh buffer that replaces the old one
SerializeTuple_serialize_element_restart(buf, value) == Serialize(value, <<>>)

\* impl SerializeTuple
SerializeTuple_serialize_element(buf, value) == Serialize(value, buf)

SerializeTuple_end(buf) == Ok(buf)

\* impl SerializeTupleStruct
SerializeTupleStruct_serialize_field(buf, value) == Serialize(value, buf)

SerializeTupleStruct_end(buf) == Ok(buf)

\* impl SerializeTupleVariant
SerializeTupleVariant_serialize_field(buf, value) == Serialize(value, buf)

SerializeTupleVariant_end(buf) == Ok(buf)

\* the names of the fields of the records offered, in declared order
FieldNames == <<"bar", "baz", "qux", "quux">>

\* one element call on the compound serializer of the given kind; key is
\* the field's name, which only the record kinds are given
ElementCall(kind, buf, key, value) ==
    CASE kind = "seq" -> SerializeSeq_serialize_element(buf, value)
      [] kind = "tuple" -> SerializeTuple_serialize_element(buf, value)
      [] kind = "tuple_struct" -> SerializeTupleStruct_serialize_field(buf, value)
      [] kind = "tuple_variant" -> SerializeTupleVariant_serialize_field(buf, value)
      [] kind = "struct" -> SerializeStruct_serialize_field(buf, key, value)
      [] kind = "struct_variant" ->
            SerializeStructVariant_serialize_field(buf, key, value)

EndCall(kind, buf) ==
    CASE kind = "seq" -> SerializeSeq_end(buf)
      [] kind = "tuple" -> SerializeTuple_end(buf)
      [] kind = "tuple_struct" -> SerializeTupleStruct_end(buf)
      [] kind = "tuple_variant" -> SerializeTupleVariant_end(buf)
      [] kind = "struct" -> SerializeStruct_end(buf)
      [] kind = "struct_variant" -> SerializeStructVariant_end(buf)
      [] kind = "map" -> SerializeMap_end(buf)

\* the elements from the i-th on, in order, each call's error ending the
\* traversal (the `?` of the Serialize implementations), then end()
RECURSIVE SerializeElements(_, _, _, _)
SerializeElements(kind, items, i, buf) ==
    IF i > Len(items) THEN EndCall(kind, buf)
    ELSE LET r == ElementCall(kind, buf, FieldNames[i], items[i])
         IN  IF r.result # "Ok" THEN r
             ELSE SerializeElements(kind, items, i + 1, r.buffer)

\* the entries of a mapping in iteration order: key, then value
RECURSIVE SerializeEntries(_, _)
SerializeEntries(entries, buf) ==
    IF entries = <<>> THEN SerializeMap_end(buf)
    ELSE LET k == SerializeMap_serialize_key(buf, Head(entries)[1])
         IN  IF k.result # "Ok" THEN k
             ELSE LET v == SerializeMap_serialize_value(k.buffer, Head(entries)[2])
                  IN  IF v.result # "Ok" THEN v
                      ELSE SerializeEntries(Tail(entries), v.buffer)

\* a compound: the method that hands out the compound serializer, then
\* the elements
Compound(begin, kind, items) ==
    IF begin.result # "Ok" THEN begin
    ELSE SerializeElements(kind, items, 1, begin.buffer)

Serialize(value, buf) ==
    LET kind == value[1]
    IN  CASE kind = "bool" -> serialize_bool(buf, value[2])
          [] kind = "i8" -> serialize_i8(buf, value[2])
          [] kind = "i16" -> serialize_i16(buf, value[2])
          [] kind = "i32" -> serialize_i32(buf, value[2])
          [] kind = "i64" -> serialize_i64(buf, value[2])
          [] kind = "u8" -> serialize_u8(buf, value[2])
          [] kind = "u16" -> serialize_u16(buf, value[2])
          [] kind = "u32" -> serialize_u32(buf, value[2])
          [] kind = "u64" -> serialize_u64(buf, value[2])
          [] kind = "f32" -> serialize_f32(buf, value[2])
          [] kind = "f64" -> serialize_f64(buf, value[2])
          [] kind = "char" -> serialize_char(buf, value[2])
          [] kind = "str" -> serialize_str(buf, value[2])
          [] kind = "bytes" -> serialize_bytes(buf, value[2])
          [] kind = "none" -> serialize_none(buf)
          [] kind = "some" -> serialize_some(buf, value[2])
          [] kind = "unit" -> serialize_unit(buf)
          [] kind = "unit_struct" -> serialize_unit_struct(buf)
          [] kind = "unit_variant" -> serialize_unit_variant(buf, value[2])
          [] kind = "newtype_struct" -> serialize_newtype_struct(buf, value[2])
          [] kind = "newtype_variant" ->
                serialize_newtype_variant(buf, value[2], value[3])
          [] kind = "seq" ->
                Compound(serialize_seq(buf, value[2]), "seq", value[3])
          [] kind = "tuple" ->
                Compound(serialize_tuple(buf, Len(value[2])), "tuple", value[2])
          [] kind = "tuple_struct" ->
                Compound(serialize_tuple_struct(buf, Len(value[2])),
                         "tuple_struct", value[2])
          [] kind = "tuple_variant" ->
                Compound(serialize_tuple_variant(buf, value[2], Len(value[3])),
                         "tuple_variant", value[3])
          [] kind = "map" ->
                LET r == serialize_map(buf, value[2])
                IN  IF r.result # "Ok" THEN r
                    ELSE SerializeEntries(value[3], r.buffer)
          [] kind = "struct" ->
                Compound(serialize_struct(buf, Len(value[2])), "struct", value[2])
          [] kind = "struct_variant" ->
                Compound(serialize_struct_variant(buf, value[2], Len(value[3])),
                         "struct_variant", value[3])

\* what to_bytes returns
NoReturn == [tag |-> "None", err |-> "", bytes |-> <<>>]

\* a faulty to_bytes: the partly filled buffer handed back with the error
to_bytes_partial(value) ==
    LET r == Serialize(value, <<>>)
    IN  [buffer |-> r.buffer,
         result |-> r.result,
         ret |-> IF r.result = "Ok"
                 THEN [tag |-> "Ok", err |-> "", bytes |-> r.buffer]
                 ELSE IF r.result = "Panic" THEN NoReturn
                 ELSE [tag |-> "Err", err |-> r.result, bytes |-> r.buffer]]

\* to_bytes: a new buffer, the traversal, and the Result; `?` returns the
\* error alone, a panic returns nothing.  Yields the local buffer as the
\* traversal left it and the returned Result.
to_bytes(value) ==
    LET r == Serialize(value, <<>>)
    IN  [buffer |-> r.buffer,
         result |-> r.result,
         ret |-> IF r.result = "Ok"
                 THEN [tag |-> "Ok", err |-> "", bytes |-> r.buffer]
                 ELSE IF r.result = "Panic" THEN NoReturn
                 ELSE [tag |-> "Err", err |-> r.result, bytes |-> <<>>]]

----------------------------------------------------------------------------
(* The inputs the model offers.                                            *)

\* hi * 2^28 + lo as a word, lo below 2^28
WordOf(hi, lo) ==
    [i \in Digits |-> IF i <= 4 THEN (lo \div (128 ^ (i - 1))) % 128
                      ELSE IF i <= 8 THEN (hi \div (128 ^ (i - 5))) % 128
                      ELSE IF i = 9 THEN hi \div (128 ^ 4)
                      ELSE 0]

\* the 32-bit word of a word below 2^32
Narrow32(w) == [i \in 1..5 |-> w[i]]

\* the word whose big-endian bytes are b (f64::from_be_bytes, as bits)
FromBeBytes(b) ==
    [i \in Digits |->
        LET bit(k) == IF k >= 8 * Len(b) THEN 0
                      ELSE ByteBit(b[Len(b) - (k \div 8)], k % 8)
            lo == 7 * (i - 1)
        IN  bit(lo) + 2 * bit(lo + 1) + 4 * bit(lo + 2) + 8 * bit(lo + 3)
            + 16 * bit(lo + 4) + 32 * bit(lo + 5)
            + (IF i = 10 THEN 0 ELSE 64 * bit(lo + 6))]

SmallNat == 0..SmallMax

Bools == BOOLEAN

I8s == -128..127

U8s == 0..255

I16s ==
    SmallNat \cup { -n : n \in SmallNat }
    \cup { 2 ^ k : k \in 0..14 } \cup { -(2 ^ k) : k \in 0..15 }
    \cup { 2 ^ k - 1 : k \in 0..15 } \cup { 1 - 2 ^ k : k \in 0..15 }
    \cup { 4000, -4000, 9001, -9001 }

I32s ==
    I16s
    \cup { 2 ^ k : k \in 0..30 } \cup { -(2 ^ k) : k \in 0..30 }
    \cup { 2 ^ k - 1 : k \in 0..30 } \cup { 1 - 2 ^ k : k \in 0..30 }
    \cup { (2 ^ 30 - 1) + 2 ^ 30, -(2 ^ 30) - 2 ^ 30 }
    \cup { 70000, -70000, 2000000, -2000000, 2000000000, -2000000000 }

U16s ==
    SmallNat \cup { 2 ^ k : k \in 0..15 } \cup { 2 ^ k - 1 : k \in 0..16 }
    \cup { 9001, 40000 }

U32Words ==
    { ToWord(n) : n \in SmallNat }
    \cup { Pow2Word(k) : k \in 0..31 } \cup { OnesWord(k) : k \in 0..32 }
    \cup { ToWord(9001), ToWord(40000), ToWord(30000000), WordOf(14, 241903616) }

U32s == { Narrow32(w) : w \in U32Words }

U64s ==
    U32Words
    \cup { Pow2Word(k) : k \in 0..63 } \cup { OnesWord(k) : k \in 0..64 }
    \cup { IncWord(Pow2Word(k)) : k \in 1..63 }
    \cup { WordOf(335276, 34054144), WordOf(7450, 155852800) }

I64s ==
    { w \in U64s : NonNegative(w) }
    \cup { WrappingNeg(w) : w \in { u \in U64s : NonNegative(u) } }
    \cup { I64Min }

F32s == { Narrow32(FromBeBytes(<<64, 73, 15, 218>>)),
          Narrow32(FromBeBytes(<<193, 32, 0, 0>>)),
          Narrow32(ZeroWord), Narrow32(OnesWord(32)) }

F64s == { FromBeBytes(<<64, 9, 33, 251, 84, 65, 23, 68>>),
          FromBeBytes(<<192, 36, 0, 0, 0, 0, 0, 0>>),
          ZeroWord, OnesWord(64) }

\* 'A', 'X', 'a', U+00A3, U+0391, U+20AC, U+2262, U+1F4A9
Chars == { 65, 88, 97, 163, 913, 8364, 8802, 128169 }

\* the characters strings are made of: one, two, three and four bytes long
StrChars == { 65, 163, 8364, 128169 }

Lists(S, n) == UNION { [1..k -> S] : k \in 0..n }

\* short strings, and long ones whose byte count needs a two-byte prefix
\* while their character count does not
Strs ==
    Lists(StrChars, MaxBlob)
    \cup { <<65, 8802, 913, 46>> }
    \cup { [i \in 1..128 |-> 65], [i \in 1..43 |-> 8364], [i \in 1..64 |-> 163] }

Blobs ==
    Lists({0, 18, 255}, MaxBlob)
    \cup { <<18, 52, 86>> }
    \cup { [i \in 1..127 |-> 86], [i \in 1..128 |-> 86], [i \in 1..200 |-> i] }

None == <<"None">>

Some(n) == <<"Some", n>>

\* the lengths a sequence or a mapping is declared with
Lens == { None } \cup { Some(n) : n \in 0..MaxDeclared } \cup { Some(128) }

\* the variant indexes of the unions that compound serializers are opened for
VariantIndexes ==
    { Narrow32(ToWord(0)), Narrow32(ToWord(1)), Narrow32(ToWord(128)),
      Narrow32(OnesWord(32)) }

\* the values offered as elements, fields, keys, values and payloads: one
\* and two byte encodings, an empty one, nested optionals, a sequence and
\* a mapping of unknown length (they fail), i64::MIN, and a present
\* optional that fails after its tag byte was written
ElemValues ==
    { <<"u8", 42>>, <<"i16", -4000>>, <<"str", <<72, 105>>>>, <<"unit">>,
      <<"some", <<"none">>>>, <<"seq", None, <<>>>>, <<"map", None, <<>>>>,
      <<"i64", I64Min>>, <<"some", <<"seq", None, <<>>>>>> }

\* the compound values offered to to_bytes
CompoundValues ==
    { <<"some", x>> : x \in ElemValues }
    \cup { <<"some", <<"some", x>>>> : x \in ElemValues }
    \cup { <<"newtype_struct", x>> : x \in ElemValues }
    \cup { <<"newtype_variant", d, x>> : d \in U32s, x \in ElemValues }
    \cup { <<"unit_variant", d>> : d \in U32s }
    \cup { <<"seq", Some(Len(xs)), xs>> : xs \in Lists(ElemValues, MaxElems) }
    \cup { <<"seq", None, xs>> : xs \in Lists(ElemValues, MaxElems) }
    \cup { <<"tuple", xs>> : xs \in Lists(ElemValues, MaxElems) }
    \cup { <<"tuple_struct", xs>> : xs \in Lists(ElemValues, MaxElems) }
    \cup { <<"struct", xs>> : xs \in Lists(ElemValues, MaxElems) }
    \cup { <<"tuple_variant", d, xs>> :
              d \in VariantIndexes, xs \in Lists(ElemValues, MaxElems) }
    \cup { <<"struct_variant", d, xs>> :
              d \in VariantIndexes, xs \in Lists(ElemValues, MaxElems) }
    \cup { <<"map", Some(Len(es)), es>> :
              es \in Lists(ElemValues \X ElemValues, 1) }
    \cup { <<"map", None, es>> : es \in Lists(ElemValues \X ElemValues, 1) }
    \cup { <<"map", Some(2), <<<<k1, <<"u8", 42>>>>, <<k2, <<"u8", 16>>>>>>>> :
              k1 \in ElemValues, k2 \in ElemValues }
    \cup { <<"tuple", << <<"u8", 42>>, <<"tuple", <<x, y>>>> >> >> :
              x \in ElemValues, y \in ElemValues }

\* the values offered to to_bytes
TopValues ==
    ElemValues \cup CompoundValues
    \cup { <<"none">>, <<"unit_struct">>, <<"bool", TRUE>>, <<"bool", FALSE>> }
    \cup { <<"i64", v>> : v \in I64s } \cup { <<"u64", v>> : v \in U64s }
    \cup { <<"i8", v>> : v \in I8s } \cup { <<"u8", v>> : v \in U8s }
    \cup { <<"str", v>> : v \in Strs } \cup { <<"bytes", v>> : v \in Blobs }
    \cup { <<"char", v>> : v \in Chars }

----------------------------------------------------------------------------
(* The state machine.                                                      *)

\* the field names offered to serialize_field
FieldKeys == { FieldNames[i] : i \in 1..Len(FieldNames) }

NoOpen == [kind |-> "none", header |-> <<>>, pre |-> <<>>, items |-> <<>>]

NoCall == [op |-> "none", arg |-> <<>>, pre |-> <<>>]

\* Serializer::new on the empty Vec that to_bytes and the tests make
Init ==
    /\ buffer = <<>>
    /\ pc = "start"
    /\ open = NoOpen
    /\ result = "None"
    /\ last = NoCall
    /\ ret = NoReturn
    /\ overflow_checks \in BOOLEAN

\* a method that serializes one whole value: r is what the method yields
Whole(op, arg, r) ==
    /\ pc = "start"
    /\ buffer' = r.buffer
    /\ result' = r.result
    /\ last' = [op |-> op, arg |-> arg, pre |-> buffer]
    /\ pc' = "done"
    /\ UNCHANGED <<open, ret, overflow_checks>>

\* a method that hands out a compound serializer when it succeeds
Begin(op, kind, header, r) ==
    /\ pc = "start"
    /\ buffer' = r.buffer
    /\ result' = r.result
    /\ last' = [op |-> op, arg |-> header, pre |-> buffer]
    /\ pc' = IF r.result = "Ok" THEN "open" ELSE "done"
    /\ open' = IF r.result = "Ok"
               THEN [kind |-> kind, header |-> header, pre |-> buffer,
                     items |-> <<>>]
               ELSE open
    /\ UNCHANGED <<ret, overflow_checks>>

\* an element, field, key or value call on the open compound serializer;
\* a call that fails ends the traversal
Element(op, kind, value, r) ==
    /\ pc = "open"
    /\ open.kind = kind
    /\ Len(open.items) < MaxElems
    /\ buffer' = r.buffer
    /\ result' = r.result
    /\ last' = [op |-> op, arg |-> value, pre |-> buffer]
    /\ pc' = IF r.result = "Ok" THEN "open" ELSE "done"
    /\ open' = [open EXCEPT !.items = Append(@, value)]
    /\ UNCHANGED <<ret, overflow_checks>>

End(op, kind, r) ==
    /\ pc = "open"
    /\ open.kind = kind
    /\ buffer' = r.buffer
    /\ result' = r.result
    /\ last' = [op |-> op, arg |-> <<>>, pre |-> buffer]
    /\ pc' = "done"
    /\ UNCHANGED <<open, ret, overflow_checks>>

----------------------------------------------------------------------------
(* One action per method of the Serializer, and to_bytes.                  *)

Call_serialize_bool ==
    /\ pc = "start"
    /\ \E v \in Bools :
            Whole("serialize_bool", <<"bool", v>>, serialize_bool(buffer, v))

Call_serialize_i8 ==
    /\ pc = "start"
    /\ \E v \in I8s :
            Whole("serialize_i8", <<"i8", v>>, serialize_i8(buffer, v))

Call_serialize_i16 ==
    /\ pc = "start"
    /\ \E v \in I16s :
            Whole("serialize_i16", <<"i16", v>>, serialize_i16(buffer, v))

Call_serialize_i32 ==
    /\ pc = "start"
    /\ \E v \in I32s :
            Whole("serialize_i32", <<"i32", v>>, serialize_i32(buffer, v))

Call_serialize_i64 ==
    /\ pc = "start"
    /\ \E v \in I64s :
            Whole("serialize_i64", <<"i64", v>>, serialize_i64(buffer, v))

Call_serialize_u8 ==
    /\ pc = "start"
    /\ \E v \in U8s :
            Whole("serialize_u8", <<"u8", v>>, serialize_u8(buffer, v))

Call_serialize_u16 ==
    /\ pc = "start"
    /\ \E v \in U16s :
            Whole("serialize_u16", <<"u16", v>>, serialize_u16(buffer, v))

Call_serialize_u32 ==
    /\ pc = "start"
    /\ \E v \in U32s :
            Whole("serialize_u32", <<"u32", v>>, serialize_u32(buffer, v))

Call_serialize_u64 ==
    /\ pc = "start"
    /\ \E v \in U64s :
            Whole("serialize_u64", <<"u64", v>>, serialize_u64(buffer, v))

Call_serialize_f32 ==
    /\ pc = "start"
    /\ \E v \in F32s :
            Whole("serialize_f32", <<"f32", v>>, serialize_f32(buffer, v))

Call_serialize_f64 ==
    /\ pc = "start"
    /\ \E v \in F64s :
            Whole("serialize_f64", <<"f64", v>>, serialize_f64(buffer, v))

Call_serialize_char ==
    /\ pc = "start"
    /\ \E v \in Chars :
            Whole("serialize_char", <<"char", v>>, serialize_char(buffer, v))

Call_serialize_str ==
    /\ pc = "start"
    /\ \E v \in Strs :
            Whole("serialize_str", <<"str", v>>, serialize_str(buffer, v))

Call_serialize_bytes ==
    /\ pc = "start"
    /\ \E v \in Blobs :
            Whole("serialize_bytes", <<"bytes", v>>, serialize_bytes(buffer, v))

Call_serialize_none ==
    /\ pc = "start"
    /\ Whole("serialize_none", <<"none">>, serialize_none(buffer))

Call_serialize_unit ==
    /\ pc = "start"
    /\ Whole("serialize_unit", <<"unit">>, serialize_unit(buffer))

Call_serialize_unit_struct ==
    /\ pc = "start"
    /\ Whole("serialize_unit_struct", <<"unit_struct">>, serialize_unit_struct(buffer))

Call_serialize_some ==
    /\ pc = "start"
    /\ \E x \in ElemValues :
            Whole("serialize_some", <<"some", x>>, serialize_some(buffer, x))

Call_serialize_newtype_struct ==
    /\ pc = "start"
    /\ \E x \in ElemValues :
            Whole("serialize_newtype_struct", <<"newtype_struct", x>>, serialize_newtype_struct(buffer, x))

Call_serialize_unit_variant ==
    /\ pc = "start"
    /\ \E d \in U32s :
            Whole("serialize_unit_variant", <<"unit_variant", d>>,
                  serialize_unit_variant(buffer, d))

Call_serialize_newtype_variant ==
    /\ pc = "start"
    /\ \E d \in U32s, x \in ElemValues :
            Whole("serialize_newtype_variant", <<"newtype_variant", d, x>>,
                  serialize_newtype_variant(buffer, d, x))

Call_serialize_seq ==
    /\ pc = "start"
    /\ \E len \in Lens :
            Begin("serialize_seq", "seq", <<"len", len>>, serialize_seq(buffer, len))

Call_serialize_map ==
    /\ pc = "start"
    /\ \E len \in Lens :
            Begin("serialize_map", "map", <<"len", len>>, serialize_map(buffer, len))

Call_serialize_tuple ==
    /\ pc = "start"
    /\ \E len \in 0..MaxDeclared :
            Begin("serialize_tuple", "tuple", <<"group", len>>,
                  serialize_tuple(buffer, len))

Call_serialize_tuple_struct ==
    /\ pc = "start"
    /\ \E len \in 0..MaxDeclared :
            Begin("serialize_tuple_struct", "tuple_struct", <<"group", len>>,
                  serialize_tuple_struct(buffer, len))

Call_serialize_struct ==
    /\ pc = "start"
    /\ \E len \in 0..MaxDeclared :
            Begin("serialize_struct", "struct", <<"group", len>>,
                  serialize_struct(buffer, len))

Call_serialize_tuple_variant ==
    /\ pc = "start"
    /\ \E d \in VariantIndexes, len \in 0..MaxDeclared :
            Begin("serialize_tuple_variant", "tuple_variant", <<"variant", d, len>>,
                  serialize_tuple_variant(buffer, d, len))

Call_serialize_struct_variant ==
    /\ pc = "start"
    /\ \E d \in VariantIndexes, len \in 0..MaxDeclared :
            Begin("serialize_struct_variant", "struct_variant", <<"variant", d, len>>,
                  serialize_struct_variant(buffer, d, len))

Call_SerializeMap_serialize_key ==
    /\ pc = "open" /\ open.kind = "map"
    /\ \E x \in ElemValues :
            Element("SerializeMap::serialize_key", "map", x,
                    SerializeMap_serialize_key(buffer, x))

Call_SerializeMap_serialize_value ==
    /\ pc = "open" /\ open.kind = "map"
    /\ \E x \in ElemValues :
            Element("SerializeMap::serialize_value", "map", x,
                    SerializeMap_serialize_value(buffer, x))

Call_SerializeMap_end ==
    /\ pc = "open" /\ open.kind = "map"
    /\ End("SerializeMap::end", "map", SerializeMap_end(buffer))

Call_SerializeSeq_serialize_element ==
    /\ pc = "open" /\ open.kind = "seq"
    /\ \E x \in ElemValues :
            Element("SerializeSeq::serialize_element", "seq", x,
                    SerializeSeq_serialize_element(buffer, x))

Call_SerializeSeq_end ==
    /\ pc = "open" /\ open.kind = "seq"
    /\ End("SerializeSeq::end", "seq", SerializeSeq_end(buffer))

Call_SerializeStruct_serialize_field ==
    /\ pc = "open" /\ open.kind = "struct"
    /\ \E key \in FieldKeys, x \in ElemValues :
            Element("SerializeStruct::serialize_field", "struct", x,
                    SerializeStruct_serialize_field(buffer, key, x))

Call_SerializeStruct_end ==
    /\ pc = "open" /\ open.kind = "struct"
    /\ End("SerializeStruct::end", "struct", SerializeStruct_end(buffer))

Call_SerializeStructVariant_serialize_field ==
    /\ pc = "open" /\ open.kind = "struct_variant"
    /\ \E key \in FieldKeys, x \in ElemValues :
            Element("SerializeStructVariant::serialize_field", "struct_variant", x,
                    SerializeStructVariant_serialize_field(buffer, key, x))

Call_SerializeStructVariant_end ==
    /\ pc = "open" /\ open.kind = "struct_variant"
    /\ End("SerializeStructVariant::end", "struct_variant", SerializeStructVariant_end(buffer))

Call_SerializeTuple_serialize_element ==
    /\ pc = "open" /\ open.kind = "tuple"
    /\ \E x \in ElemValues :
            Element("SerializeTuple::serialize_element", "tuple", x,
                    SerializeTuple_serialize_element(buffer, x))

Call_SerializeTuple_end ==
    /\ pc = "open" /\ open.kind = "tuple"
    /\ End("SerializeTuple::end", "tuple", SerializeTuple_end(buffer))

Call_SerializeTupleStruct_serialize_field ==
    /\ pc = "open" /\ open.kind = "tuple_struct"
    /\ \E x \in ElemValues :
            Element("SerializeTupleStruct::serialize_field", "tuple_struct", x,
                    SerializeTupleStruct_serialize_field(buffer, x))

Call_SerializeTupleStruct_end ==
    /\ pc = "open" /\ open.kind = "tuple_struct"
    /\ End("SerializeTupleStruct::end", "tuple_struct", SerializeTupleStruct_end(buffer))

Call_SerializeTupleVariant_serialize_field ==
    /\ pc = "open" /\ open.kind = "tuple_variant"
    /\ \E x \in ElemValues :
            Element("SerializeTupleVariant::serialize_field", "tuple_variant", x,
                    SerializeTupleVariant_serialize_field(buffer, x))

Call_SerializeTupleVariant_end ==
    /\ pc = "open" /\ open.kind = "tuple_variant"
    /\ End("SerializeTupleVariant::end", "tuple_variant", SerializeTupleVariant_end(buffer))

\* the whole of to_bytes on one value
Call_to_bytes ==
    /\ pc = "start"
    /\ \E value \in TopValues :
        LET r == to_bytes(value)
        IN  /\ pc = "start"
            /\ buffer' = r.buffer
            /\ result' = r.result
            /\ ret' = r.ret
            /\ last' = [op |-> "to_bytes", arg |-> value, pre |-> <<>>]
            /\ pc' = "returned"
            /\ UNCHANGED <<open, overflow_checks>>

Next ==
    \/ Call_serialize_bool
    \/ Call_serialize_i8
    \/ Call_serialize_i16
    \/ Call_serialize_i32
    \/ Call_serialize_i64
    \/ Call_serialize_u8
    \/ Call_serialize_u16
    \/ Call_serialize_u32
    \/ Call_serialize_u64
    \/ Call_serialize_f32
    \/ Call_serialize_f64
    \/ Call_serialize_char
    \/ Call_serialize_str
    \/ Call_serialize_bytes
    \/ Call_serialize_none
    \/ Call_serialize_unit
    \/ Call_serialize_unit_struct
    \/ Call_serialize_some
    \/ Call_serialize_newtype_struct
    \/ Call_serialize_unit_variant
    \/ Call_serialize_newtype_variant
    \/ Call_serialize_seq
    \/ Call_serialize_map
    \/ Call_serialize_tuple
    \/ Call_serialize_tuple_struct
    \/ Call_serialize_struct
    \/ Call_serialize_tuple_variant
    \/ Call_serialize_struct_variant
    \/ Call_SerializeMap_serialize_key
    \/ Call_SerializeMap_serialize_value
    \/ Call_SerializeMap_end
    \/ Call_SerializeSeq_serialize_element
    \/ Call_SerializeSeq_end
    \/ Call_SerializeStruct_serialize_field
    \/ Call_SerializeStruct_end
    \/ Call_SerializeStructVariant_serialize_field
    \/ Call_SerializeStructVariant_end
    \/ Call_SerializeTuple_serialize_element
    \/ Call_SerializeTuple_end
    \/ Call_SerializeTupleStruct_serialize_field
    \/ Call_SerializeTupleStruct_end
    \/ Call_SerializeTupleVariant_serialize_field
    \/ Call_SerializeTupleVariant_end
    \/ Call_to_bytes

Spec == Init /\ [][Next]_vars

----------------------------------------------------------------------------
(* What the claims speak of.                                               *)

\* the bytes the last call appended
Appended == SubSeq(buffer, Len(last.pre) + 1, Len(buffer))

\* the continuation bit 0x80 is set on every byte but the last
ContinuationBits(bytes) ==
    /\ Len(bytes) >= 1
    /\ \A i \in 1..Len(bytes) : (bytes[i] >= 128) <=> (i < Len(bytes))

\* the word that magnitude groups, most significant first, add up to
WordOfGroups(g) ==
    [i \in Digits |-> IF i <= Len(g) THEN g[Len(g) + 1 - i] ELSE 0]

\* the groups hold no bit above bit 63
FitsWord(g) == Len(g) <= 10 /\ (Len(g) = 10 => g[1] <= 1)

\* the 7-bit magnitude groups of an unsigned encoding
UnsignedGroups(bytes) == [i \in 1..Len(bytes) |-> bytes[i] % 128]

\* the magnitude groups of a signed encoding: six bits of the leading
\* byte, seven of every later one
SignedGroups(bytes) ==
    [i \in 1..Len(bytes) |-> IF i = 1 THEN bytes[i] % 64 ELSE bytes[i] % 128]

\* bytes is an unsigned varint encoding of the number w
EncodesUnsigned(bytes, w) ==
    /\ ContinuationBits(bytes)
    /\ FitsWord(UnsignedGroups(bytes))
    /\ WordOfGroups(UnsignedGroups(bytes)) = w
    /\ IsZero(w) => bytes = <<0>>

\* |v| of the i64 with bit pattern w, as an unsigned number
MagnitudeOf(w) == IF w[10] = 1 THEN IncWord(NotWord(w)) ELSE w

\* bytes is a signed varint encoding of the i64 with bit pattern w
EncodesSigned(bytes, w) ==
    /\ ContinuationBits(bytes)
    /\ (ByteBit(bytes[1], 6) = 1) <=> (w[10] = 1)
    /\ FitsWord(SignedGroups(bytes))
    /\ WordOfGroups(SignedGroups(bytes)) = MagnitudeOf(w)
    /\ IsZero(w) => bytes = <<0>>

\* the number an unsigned argument holds, as a 64-bit word
UnsignedNumber(arg) ==
    CASE arg[1] \in {"u8", "u16"} -> ToWord(arg[2])
      [] arg[1] = "u32" -> [i \in Digits |-> IF i <= 5 THEN arg[2][i] ELSE 0]
      [] arg[1] = "u64" -> arg[2]

\* the number a signed argument holds, as a 64-bit two's complement pattern
SignedNumber(arg) ==
    CASE arg[1] \in {"i8", "i16", "i32"} ->
            IF arg[2] >= 0 THEN ToWord(arg[2])
            ELSE NotWord(ToWord(-(arg[2] + 1)))
      [] arg[1] = "i64" -> arg[2]

\* the call and its outcome, as the methods yield them
Outcome == [buffer |-> buffer, result |-> result]

ElementOps ==
    { "SerializeSeq::serialize_element", "SerializeTuple::serialize_element",
      "SerializeTupleStruct::serialize_field",
      "SerializeTupleVariant::serialize_field",
      "SerializeStruct::serialize_field",
      "SerializeStructVariant::serialize_field",
      "SerializeMap::serialize_key", "SerializeMap::serialize_value" }

----------------------------------------------------------------------------
\* C1: whatever serialize_u16, serialize_u32 and serialize_u64 append for a
\* number v has the continuation bit on every byte but the last, its 7-bit
\* groups read most significant first are v, and v = 0 gives the one byte 0.
C1_UnsignedVarint ==
    last.op \in {"serialize_u16", "serialize_u32", "serialize_u64"} =>
        /\ result = "Ok"
        /\ EncodesUnsigned(Appended, UnsignedNumber(last.arg))

\* 2^64 - 1 was encoded, in ten bytes
C1_Witness ==
    /\ last.op = "serialize_u64"
    /\ last.arg[2] = OnesWord(64)
    /\ result = "Ok"
    /\ Len(Appended) = 10

\* C2: whatever serialize_i16, serialize_i32 and serialize_i64 append for
\* an integer v has the sign bit 0x40 of the leading byte set exactly when
\* v < 0, the magnitude groups read |v|, the continuation bit is on every
\* byte but the last, and v = 0 gives the one byte 0.
C2_SignedVarint ==
    last.op \in {"serialize_i16", "serialize_i32", "serialize_i64"} =>
        /\ result = "Ok"
        /\ EncodesSigned(Appended, SignedNumber(last.arg))

\* The signed encoding is as C2 says whenever the call returns; it fails to
\* return for i64::MIN alone, in a build with overflow checks.
SignedVarintUnlessPanic ==
    last.op \in {"serialize_i16", "serialize_i32", "serialize_i64"} =>
        IF result = "Panic"
        THEN last.arg = <<"i64", I64Min>> /\ overflow_checks /\ Appended = <<>>
        ELSE result = "Ok" /\ EncodesSigned(Appended, SignedNumber(last.arg))

\* C3, as stated: for every width, 8 bits included, encoding v gives what
\* the 64-bit method of the same signedness gives for the same number.
C3_EveryWidthWidens ==
    /\ last.op \in {"serialize_i8", "serialize_i16", "serialize_i32",
                    "serialize_i64"} =>
            Outcome = serialize_i64(last.pre, SignedNumber(last.arg))
    /\ last.op \in {"serialize_u8", "serialize_u16", "serialize_u32",
                    "serialize_u64"} =>
            Outcome = serialize_u64(last.pre, UnsignedNumber(last.arg))

\* C3, amended: for the widths of 16, 32 and 64 bits encoding v gives what
\* the 64-bit method of the same signedness gives for the same number; the
\* 8-bit types append one byte, the low eight bits of the value.
C3_WideWidthsWiden ==
    /\ last.op \in {"serialize_i16", "serialize_i32", "serialize_i64"} =>
            Outcome = serialize_i64(last.pre, SignedNumber(last.arg))
    /\ last.op \in {"serialize_u16", "serialize_u32", "serialize_u64"} =>
            Outcome = serialize_u64(last.pre, UnsignedNumber(last.arg))
    /\ last.op \in {"serialize_i8", "serialize_u8"} =>
            result = "Ok" /\ Appended = <<last.arg[2] % 256>>

\* i16::MIN went through the signed codec: C2 80 00
C3_Witness ==
    /\ last.op = "serialize_i16"
    /\ last.arg[2] = -(2 ^ 15)
    /\ result = "Ok"
    /\ Appended = <<194, 128, 0>>

\* is the argument the most negative value of its width, and what is the
\* magnitude of that value
IsMinimum(arg) ==
    \/ arg[1] = "i16" /\ arg[2] = -(2 ^ 15)
    \/ arg[1] = "i32" /\ arg[2] = -(2 ^ 30) - 2 ^ 30
    \/ arg[1] = "i64" /\ arg[2] = I64Min

MinimumMagnitude(arg) ==
    CASE arg[1] = "i16" -> Pow2Word(15)
      [] arg[1] = "i32" -> Pow2Word(31)
      [] arg[1] = "i64" -> Pow2Word(63)

\* C4: for the most negative value of 16, 32 and 64 bits the negation that
\* computes the magnitude does not overflow, and the output has the sign bit
\* set and a magnitude of 2^(width-1).
C4_MinimumDoesNotOverflow ==
    (/\ last.op \in {"serialize_i16", "serialize_i32", "serialize_i64"}
     /\ IsMinimum(last.arg)) =>
        /\ ~NegOverflows(SignedNumber(last.arg))
        /\ result = "Ok"
        /\ ContinuationBits(Appended)
        /\ ByteBit(Appended[1], 6) = 1
        /\ WordOfGroups(SignedGroups(Appended)) = MinimumMagnitude(last.arg)

\* is the value a sequence or a mapping offered without a count
WithoutCount(arg) == arg[1] \in {"seq", "map"} /\ arg[2] = None

\* C5: a sequence or a mapping offered without a count fails with
\* LengthRequired and leaves the buffer as it was.
C5_LengthRequired ==
    /\ (last.op \in {"serialize_seq", "serialize_map"} /\ last.arg[2] = None) =>
            result = "LengthRequired" /\ buffer = last.pre
    /\ (last.op \in ElementOps /\ WithoutCount(last.arg)) =>
            result = "LengthRequired" /\ buffer = last.pre

\* a mapping without a count was offered as a field after bytes were written
C5_Witness ==
    /\ last.op = "SerializeTuple::serialize_element"
    /\ last.arg[1] = "map"
    /\ last.arg[2] = None
    /\ result = "LengthRequired"
    /\ Len(buffer) > 0
    /\ buffer = last.pre

\* C6: to_bytes returns Ok with everything the traversal appended to the
\* buffer it started empty, or the error alone: no byte comes back when a
\* step failed, however many were appended before it.
C6_AllOrNothing ==
    last.op = "to_bytes" =>
        /\ last.pre = <<>>
        /\ result = "Ok" => ret = [tag |-> "Ok", err |-> "", bytes |-> buffer]
        /\ result # "Ok" => ret.tag # "Ok" /\ ret.bytes = <<>>
        /\ result = "LengthRequired" =>
                ret.tag = "Err" /\ ret.err = "LengthRequired"

\* to_bytes failed after bytes had been appended
C6_Witness ==
    /\ last.op = "to_bytes"
    /\ ret.tag = "Err"
    /\ ret.bytes = <<>>
    /\ Len(buffer) > 0

\* the encoding of a number by the unsigned codec
Varint(w) == serialize_usize(<<>>, w)

\* C7: a string or a blob with byte content b is encoded as the unsigned
\* varint of the byte count of b, then b unchanged; for a string b is its
\* UTF-8 form; the empty blob is the one byte 0.
C7_LengthPrefixed ==
    last.op \in {"serialize_str", "serialize_bytes"} =>
        LET b == IF last.op = "serialize_str" THEN as_bytes(last.arg[2])
                 ELSE last.arg[2]
            k == Len(Appended) - Len(b)
            prefix == SubSeq(Appended, 1, k)
        IN  /\ result = "Ok"
            /\ k >= 1
            /\ prefix = Varint(ToWord(Len(b)))
            /\ EncodesUnsigned(prefix, ToWord(Len(b)))
            /\ SubSeq(Appended, k + 1, Len(Appended)) = b
            /\ Len(b) = 0 => Appended = <<0>>

\* a string of 43 characters and 129 bytes got the two-byte prefix 81 01
C7_Witness ==
    /\ last.op = "serialize_str"
    /\ Len(last.arg[2]) = 43
    /\ Len(Appended) = 131
    /\ Appended[1] = 129
    /\ Appended[2] = 1

\* the encoding of a value on its own
Enc(x) == Serialize(x, <<>>)

\* C8: an absent optional is the one byte 0; a present optional holding x
\* is the byte 1, then the encoding of x, whatever x is.
C8_Optional ==
    /\ (last.op = "serialize_none"
        \/ (last.op \in ElementOps \cup {"to_bytes"} /\ last.arg = <<"none">>)) =>
            result = "Ok" /\ Appended = <<0>>
    /\ (last.op \in ElementOps \cup {"serialize_some", "to_bytes"}
        /\ last.arg[1] = "some") =>
            LET e == Enc(last.arg[2])
            IN  /\ result = e.result
                /\ Appended = <<1>> \o e.buffer
                /\ e.result = "Ok" /\ last.op = "to_bytes" =>
                        ret.bytes = <<1>> \o e.buffer

\* a present optional holding a present optional holding an absent one
C8_Witness ==
    /\ last.op = "serialize_some"
    /\ last.arg[2] = <<"some", <<"none">>>>
    /\ result = "Ok"
    /\ Appended = <<1, 1, 0>>

\* the encodings of the values of a list, one after the other
RECURSIVE ConcatEnc(_)
ConcatEnc(items) ==
    IF items = <<>> THEN <<>>
    ELSE Enc(Head(items)).buffer \o ConcatEnc(Tail(items))

AllEncodable(items) == \A i \in 1..Len(items) : Enc(items[i]).result = "Ok"

\* the pairs of a mapping as the list key, value, key, value, ...
RECURSIVE Flatten(_)
Flatten(entries) ==
    IF entries = <<>> THEN <<>>
    ELSE <<Head(entries)[1], Head(entries)[2]>> \o Flatten(Tail(entries))

\* the number a variant index holds, as a 64-bit word
IndexNumber(d) == [i \in Digits |-> IF i <= 5 THEN d[i] ELSE 0]

\* C9: a tuple, a tuple struct and a struct are the encodings of their
\* elements in order and nothing else; a sequence declared with n
\* elements is the unsigned varint of n, then the elements; a mapping
\* declared with n pairs is the varint of n, then key and value of each
\* pair in iteration order.
C9_Aggregates ==
    /\ (pc \in {"open", "done"} /\ result = "Ok"
        /\ open.kind \in {"tuple", "tuple_struct", "struct"}) =>
            buffer = open.pre \o ConcatEnc(open.items)
    /\ (pc \in {"open", "done"} /\ result = "Ok"
        /\ open.kind \in {"seq", "map"}) =>
            buffer = open.pre \o Varint(ToWord(open.header[2][2]))
                     \o ConcatEnc(open.items)
    /\ (last.op = "to_bytes"
        /\ last.arg[1] \in {"tuple", "tuple_struct", "struct"}
        /\ AllEncodable(last.arg[2])) =>
            ret.tag = "Ok" /\ ret.bytes = ConcatEnc(last.arg[2])
    /\ (last.op = "to_bytes" /\ last.arg[1] = "seq" /\ last.arg[2] # None
        /\ AllEncodable(last.arg[3])) =>
            /\ ret.tag = "Ok"
            /\ ret.bytes = Varint(ToWord(last.arg[2][2])) \o ConcatEnc(last.arg[3])
    /\ (last.op = "to_bytes" /\ last.arg[1] = "map" /\ last.arg[2] # None
        /\ AllEncodable(Flatten(last.arg[3]))) =>
            /\ ret.tag = "Ok"
            /\ ret.bytes = Varint(ToWord(last.arg[2][2]))
                           \o ConcatEnc(Flatten(last.arg[3]))

\* a sequence declared with two elements was given two and ended
C9_Witness ==
    /\ pc = "done"
    /\ last.op = "SerializeSeq::end"
    /\ open.header[2] = Some(2)
    /\ open.items = << <<"i16", -4000>>, <<"str", <<72, 105>>>> >>
    /\ result = "Ok"
    /\ buffer = <<2, 223, 32, 2, 72, 105>>

\* C10: for every variant index d the four union shapes start with the
\* unsigned varint of d, the same bytes in all four, and go on with the
\* encodings of the payload values in order and nothing else; a unit
\* variant is the varint of d alone.
C10_Variants ==
    /\ last.op \in {"serialize_unit_variant", "serialize_newtype_variant",
                    "serialize_tuple_variant", "serialize_struct_variant"} =>
            EncodesUnsigned(Varint(IndexNumber(last.arg[2])),
                            IndexNumber(last.arg[2]))
    /\ last.op = "serialize_unit_variant" =>
            result = "Ok" /\ Appended = Varint(IndexNumber(last.arg[2]))
    /\ last.op = "serialize_newtype_variant" =>
            LET e == Enc(last.arg[3])
            IN  /\ result = e.result
                /\ Appended = Varint(IndexNumber(last.arg[2])) \o e.buffer
    /\ (pc \in {"open", "done"} /\ result = "Ok"
        /\ open.kind \in {"tuple_variant", "struct_variant"}) =>
            buffer = open.pre \o Varint(IndexNumber(open.header[2]))
                     \o ConcatEnc(open.items)
    /\ (last.op = "to_bytes" /\ last.arg[1] = "unit_variant") =>
            ret.tag = "Ok" /\ ret.bytes = Varint(IndexNumber(last.arg[2]))
    /\ (last.op = "to_bytes" /\ last.arg[1] = "newtype_variant"
        /\ AllEncodable(<<last.arg[3]>>)) =>
            /\ ret.tag = "Ok"
            /\ ret.bytes = Varint(IndexNumber(last.arg[2]))
                           \o ConcatEnc(<<last.arg[3]>>)
    /\ (last.op = "to_bytes"
        /\ last.arg[1] \in {"tuple_variant", "struct_variant"}
        /\ AllEncodable(last.arg[3])) =>
            /\ ret.tag = "Ok"
            /\ ret.bytes = Varint(IndexNumber(last.arg[2]))
                           \o ConcatEnc(last.arg[3])

\* the one-payload variant 2^32 - 1 holding -4000: 8F FF FF FF 7F, DF 20
C10_Witness ==
    /\ last.op = "serialize_newtype_variant"
    /\ last.arg[2] = Narrow32(OnesWord(32))
    /\ last.arg[3] = <<"i16", -4000>>
    /\ result = "Ok"
    /\ Appended = <<143, 255, 255, 255, 127, 223, 32>>

----------------------------------------------------------------------------
(* The buffer only grows.                                                  *)

IsPrefix(a, b) == Len(a) <= Len(b) /\ SubSeq(b, 1, Len(a)) = a

\* C11: the buffer is append-only: whatever operation runs, failing ones
\* included, the buffer before it is an unchanged prefix of the buffer after
\* it, so its length never decreases.
C11_AppendOnly == [][IsPrefix(buffer, buffer')]_vars

\* a present optional holding a sequence of unknown length, as the second
\* element after an element that wrote bytes: the call fails after its tag
\* byte 1 was appended, and all the bytes before it are still there
C11_Witness ==
    /\ last.op \in ElementOps
    /\ last.arg = <<"some", <<"seq", None, <<>>>>>>
    /\ result = "LengthRequired"
    /\ Len(last.pre) > Len(open.pre)
    /\ buffer = last.pre \o <<1>>

----------------------------------------------------------------------------
(* The unsigned encoding is as short as it can be.                         *)

\* v < 2^(7k), for the 64-bit number v
Below(w, k) == \A i \in (k + 1)..10 : w[i] = 0

\* the least k >= 1 with v < 2^(7k)
MinimalLen(w) ==
    CHOOSE k \in 1..10 : Below(w, k) /\ \A j \in 1..(k - 1) : ~Below(w, j)

\* the calls that append one unsigned varint and nothing else
VarintOps ==
    { "serialize_u16", "serialize_u32", "serialize_u64",
      "serialize_unit_variant", "serialize_seq", "serialize_map" }

\* the number such a call encodes
VarintNumber ==
    CASE last.op \in {"serialize_u16", "serialize_u32", "serialize_u64"} ->
            UnsignedNumber(last.arg)
      [] last.op = "serialize_unit_variant" -> IndexNumber(last.arg[2])
      [] last.op \in {"serialize_seq", "serialize_map"} ->
            UsizeOfLen(last.arg[2][2])

\* C12: every unsigned varint is minimal: the number of bytes appended for
\* v is the least k >= 1 with v < 2^(7k), at most ten, and when k > 1 the
\* seven magnitude bits of the leading byte are not all zero.
C12_Minimal ==
    (last.op \in VarintOps /\ result = "Ok") =>
        /\ Len(Appended) = MinimalLen(VarintNumber)
        /\ Len(Appended) <= 10
        /\ Len(Appended) > 1 => Appended[1] % 128 # 0

\* 2^21 - 1, 21 bits wide, takes three bytes and 2^21 takes four, the
\* leading one holding the group 1
C12_Witness ==
    /\ last.op = "serialize_u64"
    /\ last.arg[2] = Pow2Word(21)
    /\ result = "Ok"
    /\ Appended = <<129, 128, 128, 0>>

\* a number an exact multiple of seven bits wide takes no extra byte
C12_WitnessFullGroups ==
    /\ last.op = "serialize_u64"
    /\ last.arg[2] = OnesWord(21)
    /\ result = "Ok"
    /\ Appended = <<255, 255, 127>>

----------------------------------------------------------------------------
(* The declared count is written and never looked at again.                *)

\* C13: once serialize_seq(Some(n)) or serialize_map(Some(n)) has written
\* n, nothing compares n with what follows: every element, key or value
\* call appends the encoding of its value and nothing else, and succeeds
\* when that value can be encoded, however many calls came before it and
\* whether or not keys and values alternate; end succeeds and appends
\* nothing whatever the number of calls; the buffer still starts with the
\* encoding of n.
C13_CountUnchecked ==
    (open.kind \in {"seq", "map"} /\ open.header[2] # None) =>
        /\ IsPrefix(open.pre \o Varint(UsizeOfLen(open.header[2][2])), buffer)
        /\ last.op \in { "SerializeSeq::serialize_element",
                         "SerializeMap::serialize_key",
                         "SerializeMap::serialize_value" } =>
                /\ result = Enc(last.arg).result
                /\ Appended = Enc(last.arg).buffer
        /\ last.op \in {"SerializeSeq::end", "SerializeMap::end"} =>
                /\ result = "Ok"
                /\ Appended = <<>>
                /\ buffer = open.pre \o Varint(UsizeOfLen(open.header[2][2]))
                             \o ConcatEnc(open.items)

\* a sequence declared empty was ended after two elements
C13_Witness ==
    /\ last.op = "SerializeSeq::end"
    /\ open.header[2] = Some(0)
    /\ open.items = << <<"u8", 42>>, <<"i16", -4000>> >>
    /\ result = "Ok"
    /\ buffer = <<0, 42, 223, 32>>

\* a mapping declared with two pairs was ended after one call, a key
\* without a value or a value without a key
C13_WitnessUnpaired ==
    /\ last.op = "SerializeMap::end"
    /\ open.header[2] = Some(2)
    /\ open.items = << <<"u8", 42>> >>
    /\ result = "Ok"
    /\ buffer = <<2, 42>>

====
